---- MODULE Spec2Model ----
(***************************************************************************)
(* Model of storage_device: StorageBlockDevice, the adapter that turns a   *)
(* BlockDevice (whole-block transfers) into a StorageDevice (byte-granular *)
(* read/write), src/src/storage_device.rs, over a block device that stores *)
(* what is written, fails every call touching a block at or beyond count() *)
(* and may have one faulty block.                                          *)
(*                                                                         *)
(* StorageBlockDevice is generic over the device's Block type; the model   *)
(* instantiates it with a Block of BlockSize bytes whose alignment is      *)
(* BlockAlign.  A caller holds one request (offset, buffer length, buffer  *)
(* address) and issues read and write calls with it.                       *)
(***************************************************************************)
EXTENDS Integers, Sequences, FiniteSets, TLC

\* size_of::<BD::Block>() of the instantiated Block type
BlockSize == 4
\* align_of::<BD::Block>() of the instantiated Block type
BlockAlign == 2

\* count() of the block device
NumBlocks == 4
\* longest caller buffer
MaxLen == 10
\* largest request offset (the device holds NumBlocks * BlockSize bytes)
MaxOffset == 17
\* largest small block index / block count converted to bytes
MaxIndex == 40

\* usize arithmetic wraps modulo 2^64 in a build without overflow checks; the
\* model wraps modulo a power of two that exceeds every buffer length too.
WordModulus == 2^30

VARIABLES
    block_device,   \* contents of the wrapped device: NumBlocks blocks
    fault,          \* the faulty block of the medium, if any
    tmp_block,      \* StorageBlockDevice.tmp_block
    build,          \* "debug" (overflow checks) or "release" (wrapping)
    offset,         \* the caller's request: byte offset
    len,            \*   buffer length
    addr,           \*   buffer start address modulo BlockAlign
    file,           \* contents of the std::fs::File: a sequence of bytes
    last            \* the last call made and what it returned

vars == <<block_device, fault, tmp_block, build, offset, len, addr, file, last>>

----------------------------------------------------------------------------
\* Bytes and buffers

\* byte at absolute position p of the device before any write
InitByte(p) == 100 + p
\* byte k of the buffer the caller writes from
SrcByte(k) == 200 + k
\* fill of the buffer the caller reads into (the tests' 0x55)
FillByte == 85

SrcBuf(n) == [k \in 1..n |-> SrcByte(k - 1)]
DstBuf(n) == [k \in 1..n |-> FillByte]

\* BD::Block::default()
DefaultBlock == [k \in 1..BlockSize |-> 0]

InitDevice == [b \in 1..NumBlocks |->
                 [k \in 1..BlockSize |-> InitByte((b - 1) * BlockSize + (k - 1))]]

\* dst[at .. at + Len(src)) = src   (copy_from_slice into a sub-slice; 0-based at)
CopyInto(dst, at, src) ==
    [k \in 1..Len(dst) |->
        IF k - 1 >= at /\ k - 1 < at + Len(src) THEN src[k - at] ELSE dst[k]]

\* bytes[from .. to) of a slice (0-based, to excluded)
Slice(bytes, from, to) == SubSeq(bytes, from + 1, to)

\* the n blocks a byte slice of n * BlockSize bytes is reinterpreted as
AsBlocks(bytes) ==
    [i \in 1..(Len(bytes) \div BlockSize) |->
        Slice(bytes, (i - 1) * BlockSize, i * BlockSize)]

\* the bytes of a run of blocks
RECURSIVE AsBytes(_)
AsBytes(blocks) ==
    IF blocks = <<>> THEN <<>> ELSE Head(blocks) \o AsBytes(Tail(blocks))

\* byte at absolute position p of a device
DeviceByte(dev, p) == dev[(p \div BlockSize) + 1][(p % BlockSize) + 1]

----------------------------------------------------------------------------
\* The block device

NoFault == [operation |-> "None", block |-> 0]
Faults == {NoFault} \cup
          [operation : {"Read", "Write"}, block : 0..(NumBlocks - 1)]

NoBlockError == [operation |-> "None", start_index |-> 0, block_count |-> 0]

BlockDeviceError(op, index, n) ==
    [operation |-> op, start_index |-> index, block_count |-> n]

\* position in index .. index+n-1 of the first block the device cannot
\* transfer, n when it can transfer all of them
FirstFailing(flt, op, index, n) ==
    LET failing == {i \in 0..(n - 1) :
                      \/ index + i >= NumBlocks
                      \/ flt.operation = op /\ flt.block = index + i}
    IN  IF failing = {} THEN n
        ELSE CHOOSE i \in failing : \A j \in failing : i <= j

\* BlockDevice::read(blocks, index): block by block until one fails
DevRead(dev, flt, blocks, index) ==
    LET n == Len(blocks)
        k == FirstFailing(flt, "Read", index, n)
    IN  [ok     |-> k = n,
         blocks |-> [i \in 1..n |-> IF i - 1 < k THEN dev[index + i] ELSE blocks[i]],
         err    |-> IF k = n THEN NoBlockError
                    ELSE BlockDeviceError("Read", index, n)]

\* BlockDevice::write(blocks, index): block by block until one fails
DevWrite(dev, flt, blocks, index) ==
    LET n == Len(blocks)
        k == FirstFailing(flt, "Write", index, n)
    IN  [ok  |-> k = n,
         dev |-> [b \in 1..NumBlocks |->
                    IF b - 1 >= index /\ b - 1 < index + k
                    THEN blocks[b - index] ELSE dev[b]],
         err |-> IF k = n THEN NoBlockError
                 ELSE BlockDeviceError("Write", index, n)]

\* one entry of the record of block-device calls made by a call
DevCall(op, index, n, target, misalign, ok) ==
    [operation |-> op, index |-> index, count |-> n,
     target |-> target, misalign |-> misalign, ok |-> ok]

----------------------------------------------------------------------------
\* The split of a request (read_internal and write_internal compute the same)

first_part_block(off) == off \div BlockSize
first_part_len(off) == BlockSize - (off % BlockSize)
middle_part_block(off) ==
    IF first_part_len(off) = 0 THEN first_part_block(off)
    ELSE first_part_block(off) + 1
end_part_block(off, n) == (off + n) \div BlockSize
end_part_len(off, n) == (off + n) % BlockSize
\* buf.len() - first_part_len - end_part_len in usize
middle_part_overflows(off, n) == n - first_part_len(off) - end_part_len(off, n) < 0
middle_part_len(off, n) ==
    LET d == n - first_part_len(off) - end_part_len(off, n)
    IN  IF d < 0 THEN WordModulus + d ELSE d

\* the running state of read_internal / write_internal
Running(dev, tmp, buf) ==
    [status |-> "run", err |-> NoBlockError, dev |-> dev, tmp |-> tmp,
     buf |-> buf, log |-> <<>>]
Panic(st) == [st EXCEPT !.status = "panic"]
Fail(st, e) == [st EXCEPT !.status = "err", !.err = e]

\* the arithmetic of lines 86-91: a build with overflow checks panics on the
\* underflow of middle_part_len
SplitStep(st, bld, off) ==
    IF bld = "debug" /\ middle_part_overflows(off, Len(st.buf))
    THEN Panic(st) ELSE st

----------------------------------------------------------------------------
\* Block-device calls of the adapter

\* self.block_device.read(from_mut(&mut self.tmp_block), BlockIndex(index))?
ReadTmp(st, flt, index) ==
    LET r == DevRead(st.dev, flt, <<st.tmp>>, index)
    IN  [st EXCEPT !.tmp = r.blocks[1],
                   !.log = Append(@, DevCall("Read", index, 1, "tmp", 0, r.ok)),
                   !.status = IF r.ok THEN "run" ELSE "err",
                   !.err = r.err]

\* self.block_device.write(from_ref(&self.tmp_block), BlockIndex(index))?
WriteTmp(st, flt, index) ==
    LET w == DevWrite(st.dev, flt, <<st.tmp>>, index)
    IN  [st EXCEPT !.dev = w.dev,
                   !.log = Append(@, DevCall("Write", index, 1, "tmp", 0, w.ok)),
                   !.status = IF w.ok THEN "run" ELSE "err",
                   !.err = w.err]

\* self.block_device.read(blocks, BlockIndex(index))? with blocks the n bytes
\* of the caller's buffer from position at, found at address misalignment mis
ReadBuf(st, flt, at, n, index, mis) ==
    LET r == DevRead(st.dev, flt, AsBlocks(Slice(st.buf, at, at + n)), index)
    IN  [st EXCEPT !.buf = CopyInto(@, at, AsBytes(r.blocks)),
                   !.log = Append(@, DevCall("Read", index, n \div BlockSize,
                                             "buf", mis, r.ok)),
                   !.status = IF r.ok THEN "run" ELSE "err",
                   !.err = r.err]

\* self.block_device.write(blocks, BlockIndex(index))? with blocks the n bytes
\* of the caller's buffer from position at, found at address misalignment mis
WriteBuf(st, flt, at, n, index, mis) ==
    LET w == DevWrite(st.dev, flt, AsBlocks(Slice(st.buf, at, at + n)), index)
    IN  [st EXCEPT !.dev = w.dev,
                   !.log = Append(@, DevCall("Write", index, n \div BlockSize,
                                             "buf", mis, w.ok)),
                   !.status = IF w.ok THEN "run" ELSE "err",
                   !.err = w.err]

\* buf[at .. at + Len(bytes)) = bytes, when the call is still running
CopyToBuf(st, at, bytes) ==
    IF st.status # "run" THEN st ELSE [st EXCEPT !.buf = CopyInto(@, at, bytes)]

\* tmp_block[at .. at + Len(bytes)) = bytes
CopyToTmp(st, at, bytes) == [st EXCEPT !.tmp = CopyInto(@, at, bytes)]

----------------------------------------------------------------------------
\* read_internal

\* ReadFirstPart reading the block a second time before copying from it
ReadFirstPartTwice(st, flt, off) ==
    IF st.status # "run" THEN st
    ELSE IF first_part_len(off) > Len(st.buf) THEN Panic(st)
    ELSE IF first_part_len(off) > 0 THEN
        LET s1 == ReadTmp(st, flt, first_part_block(off))
        IN  IF s1.status # "run" THEN s1
            ELSE CopyToBuf(ReadTmp(s1, flt, first_part_block(off)), 0,
                           Slice(s1.tmp, BlockSize - first_part_len(off), BlockSize))
    ELSE st

\* ReadFirstPart writing the block back to the device after reading it
ReadFirstPartWritingBack(st, flt, off) ==
    IF st.status # "run" THEN st
    ELSE IF first_part_len(off) > Len(st.buf) THEN Panic(st)
    ELSE IF first_part_len(off) > 0 THEN
        LET s1 == ReadTmp(st, flt, first_part_block(off))
        IN  IF s1.status # "run" THEN s1
            ELSE WriteTmp(CopyToBuf(s1, 0, Slice(s1.tmp, BlockSize - first_part_len(off),
                                                 BlockSize)),
                          flt, first_part_block(off))
    ELSE st

\* lines 93-108: the first truncated block
ReadFirstPart(st, flt, off) ==
    IF st.status # "run" THEN st
    ELSE IF first_part_len(off) > Len(st.buf) THEN Panic(st)  \* buf[..first_part_len]
    ELSE IF first_part_len(off) > 0 THEN
        LET s1 == ReadTmp(st, flt, first_part_block(off))
        IN  CopyToBuf(s1, 0, Slice(s1.tmp, BlockSize - first_part_len(off), BlockSize))
    ELSE st

\* lines 134-143: one block at a time through tmp_block, blocks i.. of the run
RECURSIVE ReadSlowLoop(_, _, _, _)
ReadSlowLoop(st, flt, off, i) ==
    IF st.status # "run" \/ middle_part_block(off) + i >= end_part_block(off, Len(st.buf))
    THEN st
    ELSE
        LET s1 == ReadTmp(st, flt, middle_part_block(off) + i)
        IN  ReadSlowLoop(CopyToBuf(s1, first_part_len(off) + i * BlockSize, s1.tmp),
                         flt, off, i + 1)

\* lines 120-130: the whole run in one call, straight into the caller's buffer
ReadFastPath(st, flt, off, a) ==
    ReadBuf(st, flt, first_part_len(off), middle_part_len(off, Len(st.buf)),
            middle_part_block(off), (a + first_part_len(off)) % BlockAlign)

\* ReadMiddlePart choosing the path on the address of the buffer
ReadMiddlePartByBase(st, flt, off, a) ==
    IF st.status # "run" THEN st
    ELSE IF first_part_len(off) + middle_part_len(off, Len(st.buf)) > Len(st.buf)
    THEN Panic(st)
    ELSE IF middle_part_len(off, Len(st.buf)) = 0
    THEN Panic(st)
    ELSE IF a % BlockAlign = 0
    THEN ReadFastPath(st, flt, off, a)
    ELSE ReadSlowLoop(st, flt, off, 0)

\* lines 110-146: the middle blocks
ReadMiddlePart(st, flt, off, a) ==
    IF st.status # "run" THEN st
    ELSE IF first_part_len(off) + middle_part_len(off, Len(st.buf)) > Len(st.buf)
    THEN Panic(st)                                      \* buf[first..first+middle]
    ELSE IF middle_part_len(off, Len(st.buf)) = 0
    THEN Panic(st)                                      \* &mut buf[0] of an empty slice
    ELSE IF (a + first_part_len(off)) % BlockAlign = 0
    THEN ReadFastPath(st, flt, off, a)
    ELSE ReadSlowLoop(st, flt, off, 0)

\* ReadEndPart copying the end of the block instead of its start
ReadEndPartFromEnd(st, flt, off) ==
    IF st.status # "run" THEN st
    ELSE IF end_part_len(off, Len(st.buf)) > 0 THEN
        LET s1 == ReadTmp(st, flt, end_part_block(off, Len(st.buf)))
        IN  CopyToBuf(s1, Len(st.buf) - end_part_len(off, Len(st.buf)),
                      Slice(s1.tmp, BlockSize - end_part_len(off, Len(st.buf)),
                            BlockSize))
    ELSE st

\* ReadEndPart reading the block at end_part_block even when end_part_len = 0
ReadEndPartAlways(st, flt, off) ==
    IF st.status # "run" THEN st
    ELSE
        LET s1 == ReadTmp(st, flt, end_part_block(off, Len(st.buf)))
        IN  CopyToBuf(s1, Len(st.buf) - end_part_len(off, Len(st.buf)),
                      Slice(s1.tmp, 0, end_part_len(off, Len(st.buf))))

\* lines 148-163: the last truncated block
ReadEndPart(st, flt, off) ==
    IF st.status # "run" THEN st
    ELSE IF end_part_len(off, Len(st.buf)) > 0 THEN
        LET s1 == ReadTmp(st, flt, end_part_block(off, Len(st.buf)))
        IN  CopyToBuf(s1, Len(st.buf) - end_part_len(off, Len(st.buf)),
                      Slice(s1.tmp, 0, end_part_len(off, Len(st.buf))))
    ELSE st

\* Ok(()) at the end of read_internal / write_internal
Finish(st) == IF st.status = "run" THEN [st EXCEPT !.status = "ok"] ELSE st

read_internal(dev, tmp, flt, bld, off, buf, a) ==
    Finish(ReadEndPart(
             ReadMiddlePart(
               ReadFirstPart(SplitStep(Running(dev, tmp, buf), bld, off), flt, off),
               flt, off, a),
             flt, off))

----------------------------------------------------------------------------
\* write_internal

\* PatchBlock going on to the write when the read of the block failed
PatchBlockIgnoringError(st, flt, index, at, bytes) ==
    WriteTmp(CopyToTmp(ReadTmp(st, flt, index), at, bytes), flt, index)

\* PatchBlock without the read of the block: patches whatever tmp_block holds
PatchBlockNoRead(st, flt, index, at, bytes) ==
    WriteTmp(CopyToTmp(st, at, bytes), flt, index)

\* the read-modify-write of one truncated block: read it into tmp_block, put
\* bytes at position at of tmp_block, write tmp_block back
PatchBlock(st, flt, index, at, bytes) ==
    LET s1 == ReadTmp(st, flt, index)
    IN  IF s1.status # "run" THEN s1
        ELSE WriteTmp(CopyToTmp(s1, at, bytes), flt, index)

\* WriteFirstPart patching the start of the block instead of its end
WriteFirstPartAtStart(st, flt, off) ==
    IF st.status # "run" THEN st
    ELSE IF first_part_len(off) > Len(st.buf) THEN Panic(st)
    ELSE IF first_part_len(off) > 0 THEN
        PatchBlock(st, flt, first_part_block(off), 0,
                   Slice(st.buf, 0, first_part_len(off)))
    ELSE st

\* lines 196-221: read the first truncated block, patch its end, write it back
WriteFirstPart(st, flt, off) ==
    IF st.status # "run" THEN st
    ELSE IF first_part_len(off) > Len(st.buf) THEN Panic(st)  \* buf[..first_part_len]
    ELSE IF first_part_len(off) > 0 THEN
        PatchBlock(st, flt, first_part_block(off), BlockSize - first_part_len(off),
                   Slice(st.buf, 0, first_part_len(off)))
    ELSE st

\* lines 247-256: one block at a time through tmp_block, blocks i.. of the run
RECURSIVE WriteSlowLoop(_, _, _, _)
WriteSlowLoop(st, flt, off, i) ==
    IF st.status # "run" \/ middle_part_block(off) + i >= end_part_block(off, Len(st.buf))
    THEN st
    ELSE WriteSlowLoop(
            WriteTmp(CopyToTmp(st, 0,
                               Slice(st.buf, first_part_len(off) + i * BlockSize,
                                     first_part_len(off) + (i + 1) * BlockSize)),
                     flt, middle_part_block(off) + i),
            flt, off, i + 1)

\* lines 233-243: the whole run in one call, straight from the caller's buffer
WriteFastPath(st, flt, off, a) ==
    WriteBuf(st, flt, first_part_len(off), middle_part_len(off, Len(st.buf)),
             middle_part_block(off), (a + first_part_len(off)) % BlockAlign)

\* WriteMiddlePart choosing the single call by the address of the buffer
WriteMiddlePartByBase(st, flt, off, a) ==
    IF st.status # "run" THEN st
    ELSE IF first_part_len(off) + middle_part_len(off, Len(st.buf)) > Len(st.buf)
    THEN Panic(st)
    ELSE IF middle_part_len(off, Len(st.buf)) = 0
    THEN Panic(st)
    ELSE IF a % BlockAlign = 0
    THEN WriteFastPath(st, flt, off, a)
    ELSE WriteSlowLoop(st, flt, off, 0)

\* lines 223-259: the middle blocks
WriteMiddlePart(st, flt, off, a) ==
    IF st.status # "run" THEN st
    ELSE IF first_part_len(off) + middle_part_len(off, Len(st.buf)) > Len(st.buf)
    THEN Panic(st)                                      \* buf[first..first+middle]
    ELSE IF middle_part_len(off, Len(st.buf)) = 0
    THEN Panic(st)                                      \* &buf[0] of an empty slice
    ELSE IF (a + first_part_len(off)) % BlockAlign = 0
    THEN WriteFastPath(st, flt, off, a)
    ELSE WriteSlowLoop(st, flt, off, 0)

\* WriteEndPart without the read of the block: patches whatever tmp_block holds
WriteEndPartNoRead(st, flt, off) ==
    IF st.status # "run" THEN st
    ELSE IF end_part_len(off, Len(st.buf)) > 0 THEN
        WriteTmp(CopyToTmp(st, 0,
                           Slice(st.buf, Len(st.buf) - end_part_len(off, Len(st.buf)),
                                 Len(st.buf))),
                 flt, end_part_block(off, Len(st.buf)))
    ELSE st

\* lines 261-285: read the last truncated block, patch its start, write it back
WriteEndPart(st, flt, off) ==
    IF st.status # "run" THEN st
    ELSE IF end_part_len(off, Len(st.buf)) > 0 THEN
        PatchBlock(st, flt, end_part_block(off, Len(st.buf)), 0,
                   Slice(st.buf, Len(st.buf) - end_part_len(off, Len(st.buf)),
                         Len(st.buf)))
    ELSE st

\* write_internal writing the last truncated block before the middle blocks
write_internal_end_first(dev, tmp, flt, bld, off, buf, a) ==
    Finish(WriteMiddlePart(
             WriteEndPart(
               WriteFirstPart(SplitStep(Running(dev, tmp, buf), bld, off), flt, off),
               flt, off),
             flt, off, a))

\* lines 187-288
write_internal(dev, tmp, flt, bld, off, buf, a) ==
    Finish(WriteEndPart(
             WriteMiddlePart(
               WriteFirstPart(SplitStep(Running(dev, tmp, buf), bld, off), flt, off),
               flt, off, a),
             flt, off))

----------------------------------------------------------------------------
\* impl StorageDevice for StorageBlockDevice

NoIoError == [operation |-> "None", offset |-> 0, len |-> 0,
              block_device_error |-> [some |-> FALSE, value |-> NoBlockError]]

IoError(op, off, n, bd_error) ==
    [operation |-> op, offset |-> off, len |-> n,
     block_device_error |-> [some |-> TRUE, value |-> bd_error]]

\* what a call returns: Ok(()), Err(IoError) or a panic
Outcome(st, error) ==
    [result |-> IF st.status = "ok" THEN "Ok"
                ELSE IF st.status = "err" THEN "Err" ELSE "Panic",
     error  |-> IF st.status = "err" THEN error ELSE NoIoError,
     st     |-> st]

\* StorageDevice::read
read(dev, tmp, flt, bld, off, buf, a) ==
    LET st == read_internal(dev, tmp, flt, bld, off, buf, a)
    IN  Outcome(st, IoError("Read", off, Len(buf), st.err))

\* write reporting its failures as failures of a read
writeTaggedRead(dev, tmp, flt, bld, off, buf, a) ==
    LET st == write_internal(dev, tmp, flt, bld, off, buf, a)
    IN  Outcome(st, IoError("Read", off, Len(buf), st.err))

\* write putting the device back as it was when a device call failed
writeRollingBack(dev, tmp, flt, bld, off, buf, a) ==
    LET st == write_internal(dev, tmp, flt, bld, off, buf, a)
    IN  Outcome(IF st.status = "err" THEN [st EXCEPT !.dev = dev] ELSE st,
                IoError("Write", off, Len(buf), st.err))

\* StorageDevice::write
write(dev, tmp, flt, bld, off, buf, a) ==
    LET st == write_internal(dev, tmp, flt, bld, off, buf, a)
    IN  Outcome(st, IoError("Write", off, Len(buf), st.err))

----------------------------------------------------------------------------
\* Block addressing and the device length

\* Block::LEN_U64, the size in bytes of the crate's Block
LEN_U64 == BlockSize

\* a * b in u64: a build with overflow checks panics when the product does not
\* fit, a wrapping build keeps its low bits (u64 and usize have the same width)
u64_mul(a, b, bld) ==
    [result |-> IF a * b >= WordModulus /\ bld = "debug" THEN "Panic" ELSE "Ok",
     value  |-> IF a * b >= WordModulus /\ bld = "debug" THEN 0
                ELSE (a * b) % WordModulus]

\* BlockCount::into_bytes_count
into_bytes_count(count, bld) == u64_mul(count, LEN_U64, bld)
\* BlockIndex::into_offset
into_offset(index, bld) == u64_mul(index, LEN_U64, bld)
\* BlockCount::into_size
into_size(count, bld) == u64_mul(count, LEN_U64, bld)

\* what BlockDevice::count() returns: Ok(BlockCount(NumBlocks)), or -1 for Err
CountResults == {NumBlocks, -1}

\* len() returning count() itself, without the multiplication by the block size
storage_len_in_blocks(counted, bld) ==
    IF counted < 0 THEN [result |-> "Err", value |-> 0]
    ELSE [result |-> "Ok", value |-> counted]

\* StorageBlockDevice::len, given what count() returned
storage_len(counted, bld) ==
    IF counted < 0 THEN [result |-> "Err", value |-> 0]
    ELSE u64_mul(counted, BlockSize, bld)

\* the block indices and counts converted: small ones, and the two around the
\* largest whose size in bytes fits the word
Indices == (0..MaxIndex) \cup {(WordModulus \div BlockSize) - 1,
                               WordModulus \div BlockSize}

----------------------------------------------------------------------------
\* The implementations over std::fs::File

\* the file starts with the bytes of the device
InitFile == AsBytes(InitDevice)

\* what makes the file fail: a seek, or transfer number `block` of a call
FileFaults == {NoFault, [operation |-> "Seek", block |-> 0]} \cup
              [operation : {"Transfer"}, block : 0..1]

\* self.seek(SeekFrom::Start(pos)) succeeds
seek_ok(flt) == flt.operation # "Seek"

\* self.read_exact(buf) of n bytes at pos, transfer number k of the call: it
\* fails on the faulty transfer and when the file ends before pos + n; an
\* empty buf transfers nothing and succeeds
read_exact_ok(f, flt, pos, n, k) ==
    \/ n = 0
    \/ /\ ~(flt.operation = "Transfer" /\ flt.block = k)
       /\ pos + n <= Len(f)

\* self.write_all(buf) of n bytes, transfer number k of the call
write_all_ok(flt, n, k) ==
    n = 0 \/ ~(flt.operation = "Transfer" /\ flt.block = k)

\* the file after bytes were written at pos: it grows to hold them, and the
\* bytes between its old end and pos read as 0
WriteAt(f, pos, bytes) ==
    [p \in 1..(IF pos + Len(bytes) > Len(f) THEN pos + Len(bytes) ELSE Len(f)) |->
        IF p - 1 >= pos /\ p - 1 < pos + Len(bytes) THEN bytes[p - pos]
        ELSE IF p <= Len(f) THEN f[p] ELSE 0]

\* IoError { operation, offset, len, block_device_error: None }
DirectIoError(op, off, n) ==
    [operation |-> op, offset |-> off, len |-> n,
     block_device_error |-> [some |-> FALSE, value |-> NoBlockError]]

\* what a call on the file returns, with the file and the buffer it leaves
FileOutcome(ok, error, block_error, f, buf) ==
    [result |-> IF ok THEN "Ok" ELSE "Err",
     error |-> IF ok THEN NoIoError ELSE error,
     block_error |-> IF ok THEN "None" ELSE block_error,
     file |-> f, buf |-> buf]

\* seek(..).and_then(|_| read_exact(buf)).map_err(|_| IoError { operation: op, .. })
read_through(f, flt, off, buf, op) ==
    IF seek_ok(flt) /\ read_exact_ok(f, flt, off, Len(buf), 0)
    THEN FileOutcome(TRUE, NoIoError, "None", f, Slice(f, off, off + Len(buf)))
    ELSE FileOutcome(FALSE, DirectIoError(op, off, Len(buf)), "None", f, buf)

\* seek(..).and_then(|_| write_all(buf)).map_err(|_| IoError { operation: op, .. })
write_through(f, flt, off, buf, op) ==
    IF seek_ok(flt) /\ write_all_ok(flt, Len(buf), 0)
    THEN FileOutcome(TRUE, NoIoError, "None",
                     IF buf = <<>> THEN f ELSE WriteAt(f, off, buf), buf)
    ELSE FileOutcome(FALSE, DirectIoError(op, off, Len(buf)), "None", f, buf)

\* <File as StorageDevice>::read
file_read(f, flt, off, buf) == read_through(f, flt, off, buf, "Read")
\* <File as StorageDevice>::write
file_write(f, flt, off, buf) == write_through(f, flt, off, buf, "Write")
\* <&File as StorageDevice>::read
ref_file_read(f, flt, off, buf) == read_through(f, flt, off, buf, "Read")
\* <&File as StorageDevice>::write: its map_err builds IoOperation::Read
ref_file_write(f, flt, off, buf) == write_through(f, flt, off, buf, "Read")

\* the number of blocks read before read_exact fails, n when none does
BlocksRead(f, flt, pos, n) ==
    LET failing == {k \in 0..(n - 1) :
                      ~read_exact_ok(f, flt, pos + k * BlockSize, BlockSize, k)}
    IN  IF failing = {} THEN n
        ELSE CHOOSE k \in failing : \A j \in failing : k <= j

\* the number of blocks written before write_all fails, n when none does
BlocksWritten(flt, n) ==
    LET failing == {k \in 0..(n - 1) : ~write_all_ok(flt, BlockSize, k)}
    IN  IF failing = {} THEN n
        ELSE CHOOSE k \in failing : \A j \in failing : k <= j

\* <File as BlockDevice>::read: seek, then block by block until one fails
file_block_read(f, flt, bld, blocks, index) ==
    LET pos == into_offset(index, bld).value
        k == BlocksRead(f, flt, pos, Len(blocks))
    IN  IF ~seek_ok(flt)
        THEN FileOutcome(FALSE, NoIoError, "ReadError", f, AsBytes(blocks))
        ELSE FileOutcome(k = Len(blocks), NoIoError, "ReadError", f,
                         CopyInto(AsBytes(blocks), 0, Slice(f, pos, pos + k * BlockSize)))

\* <File as BlockDevice>::write: seek, then block by block until one fails;
\* the failure of its seek is mapped to BlockError::ReadError
file_block_write(f, flt, bld, blocks, index) ==
    LET pos == into_offset(index, bld).value
        k == BlocksWritten(flt, Len(blocks))
    IN  IF ~seek_ok(flt)
        THEN FileOutcome(FALSE, NoIoError, "ReadError", f, AsBytes(blocks))
        ELSE FileOutcome(k = Len(blocks), NoIoError, "WriteError",
                         IF k = 0 THEN f
                         ELSE WriteAt(f, pos, Slice(AsBytes(blocks), 0, k * BlockSize)),
                         AsBytes(blocks))

----------------------------------------------------------------------------
\* The state machine

NoCall == [op |-> "None", result |-> "None", error |-> NoIoError,
           log |-> <<>>, before |-> InitDevice, buf |-> <<>>,
           internal |-> NoBlockError, arg |-> 0, value |-> 0,
           block_error |-> "None"]

\* the record of a completed call
Called(op, out, before) ==
    [op |-> op, result |-> out.result, error |-> out.error,
     log |-> out.st.log, before |-> before, buf |-> out.st.buf,
     internal |-> out.st.err, arg |-> 0, value |-> 0,
     block_error |-> "None"]

\* the record of a call that takes a number and returns one
Computed(op, arg, out) ==
    [NoCall EXCEPT !.op = op, !.result = out.result, !.arg = arg,
                   !.value = out.value, !.before = block_device]

\* StorageBlockDevice::new over a device, and the request the caller makes
Init ==
    /\ block_device = InitDevice
    /\ fault \in Faults
    /\ tmp_block = DefaultBlock
    /\ build \in {"debug", "release"}
    /\ offset \in 0..MaxOffset
    /\ len \in 0..MaxLen
    /\ addr \in 0..(BlockAlign - 1)
    /\ file = InitFile
    /\ last = NoCall

\* the caller reads len bytes at offset into a buffer at addr
Read ==
    /\ last.result # "Panic"
    /\ LET out == read(block_device, tmp_block, fault, build, offset, DstBuf(len), addr)
       IN  /\ tmp_block' = out.st.tmp
           /\ block_device' = out.st.dev
           /\ last' = Called("Read", out, block_device)
    /\ UNCHANGED <<fault, build, offset, len, addr, file>>

\* the caller writes the len bytes of its buffer at addr to offset
Write ==
    /\ last.result # "Panic"
    /\ LET out == write(block_device, tmp_block, fault, build, offset, SrcBuf(len), addr)
       IN  /\ tmp_block' = out.st.tmp
           /\ block_device' = out.st.dev
           /\ last' = Called("Write", out, block_device)
    /\ UNCHANGED <<fault, build, offset, len, addr, file>>

\* the caller asks for the length of the device
Length ==
    /\ last.result # "Panic"
    /\ \E counted \in CountResults :
          last' = Computed("Len", counted, storage_len(counted, build))
    /\ UNCHANGED <<block_device, fault, tmp_block, build, offset, len, addr, file>>

Next == Read \/ Write \/ Length

Spec == Init /\ [][Next]_vars

\* a block index is converted to a byte offset
IntoOffset ==
    /\ last.result # "Panic"
    /\ \E i \in Indices : last' = Computed("into_offset", i, into_offset(i, build))
    /\ UNCHANGED <<block_device, fault, tmp_block, build, offset, len, addr, file>>

\* a block count is converted to a size in bytes
IntoSize ==
    /\ last.result # "Panic"
    /\ \E i \in Indices : last' = Computed("into_size", i, into_size(i, build))
    /\ UNCHANGED <<block_device, fault, tmp_block, build, offset, len, addr, file>>

\* a block count is converted to a count of bytes
IntoBytesCount ==
    /\ last.result # "Panic"
    /\ \E i \in Indices :
          last' = Computed("into_bytes_count", i, into_bytes_count(i, build))
    /\ UNCHANGED <<block_device, fault, tmp_block, build, offset, len, addr, file>>

\* the addressing types and len() alone, over a device nothing is written to
UnitsInit ==
    /\ block_device = InitDevice
    /\ fault = NoFault
    /\ tmp_block = DefaultBlock
    /\ build \in {"debug", "release"}
    /\ offset = 0
    /\ len = 0
    /\ addr = 0
    /\ file = InitFile
    /\ last = NoCall

UnitsNext == Length \/ IntoOffset \/ IntoSize \/ IntoBytesCount

UnitsSpec == UnitsInit /\ [][UnitsNext]_vars

\* the record of a call on the file
FileCalled(op, out, arg, value) ==
    [NoCall EXCEPT !.op = op, !.result = out.result, !.error = out.error,
                   !.block_error = out.block_error, !.buf = out.buf,
                   !.arg = arg, !.value = value]

\* the caller reads len bytes at offset of a File
FileRead ==
    /\ LET out == file_read(file, fault, offset, DstBuf(len))
       IN  /\ file' = out.file
           /\ last' = FileCalled("FileRead", out, 0, 0)
    /\ UNCHANGED <<block_device, fault, tmp_block, build, offset, len, addr>>

\* the caller writes its len bytes at offset of a File
FileWrite ==
    /\ LET out == file_write(file, fault, offset, SrcBuf(len))
       IN  /\ file' = out.file
           /\ last' = FileCalled("FileWrite", out, 0, 0)
    /\ UNCHANGED <<block_device, fault, tmp_block, build, offset, len, addr>>

\* the caller reads len bytes at offset of a &File
RefFileRead ==
    /\ LET out == ref_file_read(file, fault, offset, DstBuf(len))
       IN  /\ file' = out.file
           /\ last' = FileCalled("RefFileRead", out, 0, 0)
    /\ UNCHANGED <<block_device, fault, tmp_block, build, offset, len, addr>>

\* the caller writes its len bytes at offset of a &File
RefFileWrite ==
    /\ LET out == ref_file_write(file, fault, offset, SrcBuf(len))
       IN  /\ file' = out.file
           /\ last' = FileCalled("RefFileWrite", out, 0, 0)
    /\ UNCHANGED <<block_device, fault, tmp_block, build, offset, len, addr>>

\* the block index and the number of blocks of the calls on the file as a
\* block device: the blocks that start inside the caller's request
FileIndex == offset \div BlockSize
FileBlocks == len \div BlockSize

\* the caller reads FileBlocks blocks at block FileIndex of a File
FileBlockRead ==
    /\ LET out == file_block_read(file, fault, build,
                                  [i \in 1..FileBlocks |-> DefaultBlock], FileIndex)
       IN  /\ file' = out.file
           /\ last' = FileCalled("FileBlockRead", out, FileIndex, FileBlocks)
    /\ UNCHANGED <<block_device, fault, tmp_block, build, offset, len, addr>>

\* the caller writes FileBlocks blocks at block FileIndex of a File
FileBlockWrite ==
    /\ LET out == file_block_write(file, fault, build,
                                   AsBlocks(SrcBuf(FileBlocks * BlockSize)), FileIndex)
       IN  /\ file' = out.file
           /\ last' = FileCalled("FileBlockWrite", out, FileIndex, FileBlocks)
    /\ UNCHANGED <<block_device, fault, tmp_block, build, offset, len, addr>>

\* the implementations over a file, with at most one failing step
FileInit ==
    /\ block_device = InitDevice
    /\ fault \in FileFaults
    /\ tmp_block = DefaultBlock
    /\ build \in {"debug", "release"}
    /\ offset \in 0..MaxOffset
    /\ len \in 0..MaxLen
    /\ addr = 0
    /\ file = InitFile
    /\ last = NoCall

FileNext ==
    \/ FileRead \/ FileWrite \/ RefFileRead \/ RefFileWrite
    \/ FileBlockRead \/ FileBlockWrite

FileSpec == FileInit /\ [][FileNext]_vars

----------------------------------------------------------------------------
\* Properties

DeviceLen == NumBlocks * BlockSize
InRange == offset + len <= DeviceLen
\* the middle region of the request is served by the single-call path
FastPath == (addr + first_part_len(offset)) % BlockAlign = 0
\* output byte k of a read is the device byte at offset + k
ReadBytesCorrect ==
    \A k \in 0..(len - 1) : last.buf[k + 1] = DeviceByte(block_device, offset + k)

\* C1: over a device without a faulty block, a read that follows a successful
\* write of the same in-range request succeeds and returns the bytes written.
RoundTrip ==
    [][(/\ fault = NoFault
        /\ InRange
        /\ last.op = "Write" /\ last.result = "Ok"
        /\ last'.op = "Read")
       => (last'.result = "Ok" /\ last'.buf = SrcBuf(len))]_vars

\* a read through the per-block path, with both edges partial, has returned
\* the bytes a write had stored
RoundTripWitness ==
    /\ last.op = "Read" /\ last.result = "Ok"
    /\ fault = NoFault
    /\ last.buf = SrcBuf(len)
    /\ offset % BlockSize # 0
    /\ end_part_len(offset, len) # 0
    /\ ~FastPath

\* C2: a read that returns success has filled the buffer with the device
\* bytes at offset .. offset + len.
ReadResult ==
    (last.op = "Read" /\ last.result = "Ok") => ReadBytesCorrect

\* a successful read at a non-block-aligned offset that ends inside a block
ReadResultWitness ==
    /\ last.op = "Read" /\ last.result = "Ok"
    /\ block_device = InitDevice
    /\ offset % BlockSize # 0
    /\ end_part_len(offset, len) # 0
    /\ FastPath

\* C3: after a successful write the device holds the buffer at
\* offset .. offset + len and every other byte is what it was before the call.
WriteEffectAndFrame ==
    (last.op = "Write" /\ last.result = "Ok") =>
        \A p \in 0..(DeviceLen - 1) :
            DeviceByte(block_device, p) =
                IF p >= offset /\ p < offset + len THEN SrcByte(p - offset)
                ELSE DeviceByte(last.before, p)

\* a successful write that starts and ends inside blocks it does not cover
WriteEffectWitness ==
    /\ last.op = "Write" /\ last.result = "Ok"
    /\ offset % BlockSize # 0
    /\ end_part_len(offset, len) # 0
    /\ offset + len < DeviceLen

\* C4: a block-aligned offset and a non-zero whole number of blocks, with an
\* aligned buffer: read makes exactly one device call, write at most one.
AlignedOperationCount ==
    (/\ offset % BlockSize = 0
     /\ len > 0 /\ len % BlockSize = 0
     /\ addr = 0)
    => /\ last.op = "Read" => Len(last.log) = 1
       /\ last.op = "Write" => Len(last.log) <= 1

\* C5: with the caller's buffer aligned, read makes at most 3 device calls
\* and write at most 5.
AlignedCallBound ==
    addr = 0 => /\ last.op = "Read" => Len(last.log) <= 3
                /\ last.op = "Write" => Len(last.log) <= 5

\* C6: a read or write of a zero-length buffer makes no device call and
\* returns success.
EmptyRequest ==
    (len = 0 /\ last.op \in {"Read", "Write"}) => (last.log = <<>> /\ last.result = "Ok")

\* the request lies inside one block and does not cover it
InsideOneBlock == len >= 1 /\ (offset % BlockSize) + len < BlockSize

\* C7: an in-range request inside one block, on a device without a faulty
\* block: read succeeds with the right bytes after one block read; write
\* succeeds with one read and one write of that block.
SingleBlockRequest ==
    (InsideOneBlock /\ InRange /\ fault = NoFault) =>
        /\ last.op = "Read" =>
              /\ last.result = "Ok"
              /\ ReadBytesCorrect
              /\ Len(last.log) = 1
              /\ last.log[1].operation = "Read"
              /\ last.log[1].index = first_part_block(offset)
        /\ last.op = "Write" =>
              /\ last.result = "Ok"
              /\ Len(last.log) = 2
              /\ last.log[1].operation = "Read"
              /\ last.log[2].operation = "Write"
              /\ last.log[1].index = first_part_block(offset)
              /\ last.log[2].index = first_part_block(offset)

\* the request covers the tail of one block and the head of the next
TailAndHead ==
    /\ offset % BlockSize # 0
    /\ (offset + len) % BlockSize # 0
    /\ (offset + len) \div BlockSize = (offset \div BlockSize) + 1

\* C8: an in-range read of the tail of one block and the head of the next, on
\* a device without a faulty block, succeeds with exactly two block reads
\* (those two blocks) and the right bytes.
NoMiddleBlockRead ==
    (TailAndHead /\ InRange /\ fault = NoFault /\ last.op = "Read") =>
        /\ last.result = "Ok"
        /\ Len(last.log) = 2
        /\ \A i \in 1..2 : /\ last.log[i].operation = "Read"
                           /\ last.log[i].index = first_part_block(offset) + i - 1
        /\ ReadBytesCorrect

\* C9: a read or write that reaches beyond the device's length returns an
\* error: it neither panics nor succeeds.
OutOfRangeIsError ==
    (offset + len > DeviceLen /\ last.op \in {"Read", "Write"}) =>
        last.result = "Err"

\* C10: a call during which a block-device call failed with error e returns
\* IoError { operation of the call, the caller's offset, the buffer length,
\* Some(e) }, and a call returns an error only then.
ErrorWrapping ==
    /\ (\E i \in 1..Len(last.log) : ~last.log[i].ok) => last.result = "Err"
    /\ (last.op \in {"Read", "Write"} /\ last.result = "Err") =>
          /\ last.log # <<>>
          /\ LET c == last.log[Len(last.log)]
                 e == BlockDeviceError(c.operation, c.index, c.count)
             IN  /\ ~c.ok
                 /\ last.internal = e
                 /\ last.error = [operation |-> last.op,
                                  offset |-> offset,
                                  len |-> len,
                                  block_device_error |->
                                      [some |-> TRUE, value |-> e]]

\* a write whose read of the last truncated block failed after the first
\* block and the middle run had been written
ErrorWrappingWitness ==
    /\ last.op = "Write" /\ last.result = "Err"
    /\ offset # 0
    /\ Len(last.log) >= 4
    /\ last.log[Len(last.log)].operation = "Read"
    /\ last.log[Len(last.log)].index = end_part_block(offset, len)

\* the last call was a read or a write of the adapter
IsIo == last.op \in {"Read", "Write"}

\* C11: in a read or write, a block-device call that returns an error is the
\* last block-device call of that call, and the call returns an error.
AbortOnFirstError ==
    IsIo => \A i \in 1..Len(last.log) :
                ~last.log[i].ok => (i = Len(last.log) /\ last.result = "Err")

\* a read on the per-block path failed on a middle block while a later
\* middle block and the last truncated block were still to be read
AbortOnFirstErrorWitness ==
    /\ last.op = "Read" /\ last.result = "Err"
    /\ ~FastPath
    /\ InRange
    /\ end_part_len(offset, len) # 0
    /\ Len(last.log) = 2
    /\ last.log[2].index = middle_part_block(offset)
    /\ end_part_block(offset, len) > middle_part_block(offset) + 1

\* C13: every block slice handed to the block device is tmp_block, or a part
\* of the caller's buffer that starts at a multiple of the Block alignment
\* and is a whole number of blocks long.
DeviceGetsAlignedBlocks ==
    IsIo => \A i \in 1..Len(last.log) :
                \/ last.log[i].target = "tmp" /\ last.log[i].count = 1
                \/ /\ last.log[i].target = "buf"
                   /\ last.log[i].misalign = 0
                   /\ last.log[i].count >= 1
                   /\ last.log[i].count * BlockSize = middle_part_len(offset, len)

\* a write from a buffer at an odd address whose middle run, after an odd
\* first part, went to the device in one call
DeviceGetsAlignedBlocksWitness ==
    /\ last.op = "Write" /\ last.result = "Ok"
    /\ addr # 0
    /\ \E i \in 1..Len(last.log) : last.log[i].target = "buf" /\ last.log[i].count >= 2

\* the whole blocks of the request: MiddleFirst .. MiddleEnd - 1
MiddleFirst == (offset + BlockSize - 1) \div BlockSize
MiddleEnd == (offset + len) \div BlockSize
\* the device calls of the last call that start at a whole block of the request
MiddleCalls ==
    SelectSeq(last.log, LAMBDA c : c.index >= MiddleFirst /\ c.index < MiddleEnd)
\* the last call made again on the same device with the buffer at address a
\* and tmp_block holding tmp
Again(tmp, a) ==
    IF last.op = "Read"
    THEN read(last.before, tmp, fault, build, offset, DstBuf(len), a)
    ELSE write(last.before, tmp, fault, build, offset, SrcBuf(len), a)
\* the call made again returns what the last call returned
SameOutcome(again) ==
    /\ again.result = last.result
    /\ again.error = last.error
    /\ again.st.buf = last.buf
    /\ again.st.dev = block_device

\* C12: for an in-range request with a whole block, on a device without a
\* faulty block: with the buffer at an aligned address the whole blocks are
\* served by one device call, otherwise by one device call per whole block,
\* and the bytes read and the device contents left are the same either way.
AlignmentCorrectness ==
    (IsIo /\ InRange /\ fault = NoFault /\ MiddleEnd > MiddleFirst) =>
        /\ addr = 0 =>
              /\ Len(MiddleCalls) = 1
              /\ MiddleCalls[1].index = MiddleFirst
              /\ MiddleCalls[1].count = MiddleEnd - MiddleFirst
        /\ addr # 0 =>
              /\ Len(MiddleCalls) = MiddleEnd - MiddleFirst
              /\ \A i \in 1..Len(MiddleCalls) :
                    /\ MiddleCalls[i].index = MiddleFirst + i - 1
                    /\ MiddleCalls[i].count = 1
        /\ \A a \in 0..(BlockAlign - 1) : SameOutcome(Again(DefaultBlock, a))

\* the contents tmp_block may hold when a call starts
Scratches == {DefaultBlock, tmp_block, [k \in 1..BlockSize |-> FillByte + k]}

\* C15: a read or write returns the same result and error, fills the buffer
\* with the same bytes, makes the same device calls and leaves the same
\* device contents whatever tmp_block held when the call started.
ScratchCarriesNoState ==
    IsIo => \A t \in Scratches :
                /\ SameOutcome(Again(t, addr))
                /\ Again(t, addr).st.log = last.log

\* a write that patched both truncated blocks, made after an earlier call had
\* left bytes of the device in tmp_block
ScratchCarriesNoStateWitness ==
    /\ last.op = "Write" /\ last.result = "Ok"
    /\ last.before # InitDevice
    /\ tmp_block # DefaultBlock
    /\ offset % BlockSize # 0
    /\ end_part_len(offset, len) # 0

\* C16: the split of a request: the three lengths are non-negative and sum
\* to the buffer length, first_part_len < BlockSize and is 0 exactly for a
\* block-aligned offset, end_part_len = (offset + len) mod BlockSize,
\* middle_part_len = (end_part_block - middle_part_block) * BlockSize, and
\* middle_part_block is first_part_block when first_part_len = 0 and
\* first_part_block + 1 otherwise.
SplitInvariant ==
    IsIo =>
        /\ ~middle_part_overflows(offset, len)
        /\ first_part_len(offset) >= 0
        /\ middle_part_len(offset, len) >= 0
        /\ end_part_len(offset, len) >= 0
        /\ first_part_len(offset) + middle_part_len(offset, len)
              + end_part_len(offset, len) = len
        /\ first_part_len(offset) < BlockSize
        /\ (first_part_len(offset) = 0) <=> (offset % BlockSize = 0)
        /\ end_part_len(offset, len) = (offset + len) % BlockSize
        /\ middle_part_len(offset, len) % BlockSize = 0
        /\ middle_part_len(offset, len) =
              (end_part_block(offset, len) - middle_part_block(offset)) * BlockSize
        /\ middle_part_block(offset) =
              IF first_part_len(offset) = 0 THEN first_part_block(offset)
              ELSE first_part_block(offset) + 1

\* C14: len() fails when count() fails and otherwise returns count() times
\* the block size; into_offset and into_size return the index or count times
\* the block size, without wrap-around, whenever the product fits in a word.
DeviceLength ==
    /\ last.op = "Len" =>
          /\ last.arg < 0 => last.result = "Err"
          /\ (last.arg >= 0 /\ last.arg * BlockSize < WordModulus) =>
                (last.result = "Ok" /\ last.value = last.arg * BlockSize)
    /\ (last.op \in {"into_offset", "into_size"}
          /\ last.arg * BlockSize < WordModulus) =>
            (last.result = "Ok" /\ last.value = last.arg * BlockSize)

\* the largest index whose offset fits in a word has been converted, and
\* len() has returned the length of the device
DeviceLengthWitness ==
    \/ /\ last.op = "into_offset"
       /\ last.arg = (WordModulus \div BlockSize) - 1
       /\ last.value = WordModulus - BlockSize
    \/ /\ last.op = "Len" /\ last.arg = NumBlocks /\ last.result = "Ok"

\* the blocks a device call addresses
CallBlocks(c) == c.index .. (c.index + c.count - 1)
\* device call i of the last call writes a truncated block
WritesPartialBlock(i) ==
    /\ last.log[i].operation = "Write"
    /\ \/ last.log[i].index = first_part_block(offset)
       \/ /\ last.log[i].index = end_part_block(offset, len)
          /\ end_part_len(offset, len) > 0

\* C17: in a write the device calls have non-decreasing block indices, first
\* those of the leading block, then the middle blocks, then the trailing
\* block; the write of a truncated block comes right after the read of the
\* same block; no block is written twice.
WriteCallOrder ==
    last.op = "Write" =>
        /\ \A i, j \in 1..Len(last.log) :
              i < j => last.log[i].index <= last.log[j].index
        /\ \A i \in 1..Len(last.log) :
              WritesPartialBlock(i) =>
                  /\ i > 1
                  /\ last.log[i - 1].operation = "Read"
                  /\ last.log[i - 1].index = last.log[i].index
                  /\ last.log[i - 1].count = 1 /\ last.log[i].count = 1
        /\ \A i, j \in 1..Len(last.log) :
              (i < j /\ last.log[i].operation = "Write"
                     /\ last.log[j].operation = "Write") =>
                  CallBlocks(last.log[i]) \cap CallBlocks(last.log[j]) = {}

\* a write that patched the leading block, wrote two middle blocks one at a
\* time and patched the trailing block
WriteCallOrderWitness ==
    /\ last.op = "Write" /\ last.result = "Ok"
    /\ ~FastPath
    /\ Len(last.log) = 6
    /\ WritesPartialBlock(2) /\ WritesPartialBlock(6)

\* C18: a request of at least one byte that ends inside the device makes
\* device calls only on the blocks offset / BlockSize ..
\* (offset + len - 1) / BlockSize, all of them below count().
OnlyRequestedBlocks ==
    (IsIo /\ InRange /\ len >= 1) =>
        \A i \in 1..Len(last.log) :
            /\ last.log[i].index >= offset \div BlockSize
            /\ last.log[i].index + last.log[i].count - 1
                  <= (offset + len - 1) \div BlockSize
            /\ last.log[i].index + last.log[i].count <= NumBlocks

\* a read that ends with the last byte of the device
OnlyRequestedBlocksWitness ==
    /\ last.op = "Read" /\ last.result = "Ok"
    /\ offset + len = DeviceLen
    /\ end_part_len(offset, len) = 0
    /\ last.log[Len(last.log)].index + last.log[Len(last.log)].count = NumBlocks

\* C19: a read, successful or failed, makes only device reads and leaves
\* the device as it found it.
ReadLeavesDevice ==
    last.op = "Read" =>
        /\ \A i \in 1..Len(last.log) : last.log[i].operation = "Read"
        /\ block_device = last.before

\* a read of a device changed by an earlier write, failing after two device
\* reads succeeded
ReadLeavesDeviceWitness ==
    /\ last.op = "Read" /\ last.result = "Err"
    /\ Len(last.log) = 3
    /\ block_device # InitDevice

\* C20: the middle blocks are served by one call on the caller's buffer
\* exactly when buffer address + first_part_len is a multiple of the block
\* alignment, whatever the alignment of the buffer itself.
FastPathSelection ==
    IsIo =>
        /\ \A i \in 1..Len(last.log) :
              (/\ last.log[i].index >= middle_part_block(offset)
               /\ last.log[i].index < end_part_block(offset, len)) =>
                  /\ (last.log[i].target = "buf") <=> FastPath
                  /\ last.log[i].target = "buf" =>
                        /\ last.log[i].index = middle_part_block(offset)
                        /\ last.log[i].count * BlockSize = middle_part_len(offset, len)
                  /\ last.log[i].target = "tmp" => last.log[i].count = 1
        /\ \A i \in 1..Len(last.log) :
              last.log[i].target = "buf" => FastPath
        /\ last.result = "Ok" =>
              \E i \in 1..Len(last.log) :
                  /\ last.log[i].index = middle_part_block(offset)
                  /\ (last.log[i].target = "buf") <=> FastPath

\* a read into a buffer one byte off alignment, with an odd first_part_len,
\* served its two middle blocks by one call
FastPathSelectionWitness ==
    /\ last.op = "Read" /\ last.result = "Ok"
    /\ addr = 1
    /\ first_part_len(offset) % 2 = 1
    /\ \E i \in 1..Len(last.log) :
          last.log[i].target = "buf" /\ last.log[i].count = 2

\* the number of blocks the request overlaps
OverlappingBlocks ==
    IF len = 0 THEN 0
    ELSE ((offset + len - 1) \div BlockSize) - (offset \div BlockSize) + 1
\* the number of device calls of one kind the last call made
CallsOf(op) == Len(SelectSeq(last.log, LAMBDA c : c.operation = op))

WrittenBlocks ==
    {b \in 0..(NumBlocks - 1) :
        \E i \in 1..Len(last.log) :
            /\ last.log[i].operation = "Write"
            /\ b >= last.log[i].index
            /\ b < last.log[i].index
                     + FirstFailing(fault, "Write", last.log[i].index, last.log[i].count)}

\* C22: after a write that returned an error, the blocks already written
\* hold the bytes of the buffer that fall in them and every other byte of the
\* device is what it was before the call.
FailedWriteNotRolledBack ==
    (last.op = "Write" /\ last.result = "Err") =>
        \A p \in 0..(DeviceLen - 1) :
            DeviceByte(block_device, p) =
                IF /\ (p \div BlockSize) \in WrittenBlocks
                   /\ p >= offset /\ p < offset + len
                THEN SrcByte(p - offset)
                ELSE DeviceByte(last.before, p)

\* a write whose read of the last truncated block failed after the first
\* block and the middle blocks had been changed on the device
FailedWriteNotRolledBackWitness ==
    /\ last.op = "Write" /\ last.result = "Err"
    /\ InRange /\ end_part_len(offset, len) # 0
    /\ last.log # <<>>
    /\ last.log[Len(last.log)].operation = "Read"
    /\ last.log[Len(last.log)].index = end_part_block(offset, len)
    /\ Cardinality(WrittenBlocks) >= 2
    /\ \A b \in WrittenBlocks : block_device[b + 1] # last.before[b + 1]
    /\ block_device[end_part_block(offset, len) + 1]
          = last.before[end_part_block(offset, len) + 1]

\* C23: a failing read of a File or &File returns an IoError with operation
\* Read, a failing write one with operation Write, each with the offset and
\* the buffer length of the call and no block-device error.
PassThroughErrorContext ==
    /\ (last.op \in {"FileRead", "RefFileRead"} /\ last.result = "Err") =>
          last.error = DirectIoError("Read", offset, len)
    /\ (last.op \in {"FileWrite", "RefFileWrite"} /\ last.result = "Err") =>
          last.error = DirectIoError("Write", offset, len)

\* C24: in the BlockDevice implementation for File a failing read returns a
\* read error and a failing write a write error, whichever step failed.
FileBlockErrorKinds ==
    /\ (last.op = "FileBlockRead" /\ last.result = "Err") =>
          last.block_error = "ReadError"
    /\ (last.op = "FileBlockWrite" /\ last.result = "Err") =>
          last.block_error = "WriteError"

====
